---- MODULE Spec2Model ----
(***************************************************************************)
(* rqt_publisher: the Publisher plugin (src/src/rqt_publisher/publisher.py) *)
(* as a state machine.  The registry (_publishers), the id counter, the     *)
(* shared evaluation context (_eval_locals['i']), the bus handles of the    *)
(* node, the QTimer of every entry and the saved settings are the state;    *)
(* every slot of the plugin is one action.                                  *)
(*                                                                          *)
(* Python values are records [t |-> <python type name>, v |-> <payload>].   *)
(* Field paths are sequences of tokens: <<topic, "stamp", "sec">> stands    *)
(* for the string "/a/stamp/sec", <<topic, "hist", "[0]">> for "/a/hist[0]".*)
(***************************************************************************)
EXTENDS Integers, Sequences, FiniteSets, TLC

VARIABLES publishers, id_counter, eval_i, node_pubs, timers, slot_types, settings, last

vars == <<publishers, id_counter, eval_i, node_pubs, timers, slot_types, settings, last>>

(***************************************************************************)
(* Bounds of the model.                                                    *)
(***************************************************************************)
MaxId == 2
MaxCounter == 3
\* restore_settings is taken while the ids it hands out stay below MaxRestoredId
MaxRestoredId == 4

(***************************************************************************)
(* Python values.                                                          *)
(***************************************************************************)
None == [t |-> "NoneType", v |-> <<>>]
PyInt(n) == [t |-> "int", v |-> n]
PyStr(s) == [t |-> "str", v |-> s]
PyFloatInf == [t |-> "float", v |-> "inf"]
PyList(s) == [t |-> "list", v |-> s]
PyMsg(cls, fields) == [t |-> cls, v |-> fields]

\* _list_types and _numeric_types (numpy and array variants do not occur in
\* the message classes below).
list_types == {"list", "tuple"}
numeric_types == {"int", "float"}

(***************************************************************************)
(* The message classes the schema registry resolves (external to the       *)
(* plugin): Point{x:int,y:int}, Time{sec:int,nanosec:int} and              *)
(* Track{stamp:Time, hist:Time[1], tags:string[], name:string}.            *)
(***************************************************************************)
MsgClasses == {"Point", "Time", "Track"}

\* message.get_fields_and_field_types().keys(), in declaration order
Fields(cls) ==
    CASE cls = "Point" -> <<"x", "y">>
      [] cls = "Time"  -> <<"sec", "nanosec">>
      [] cls = "Track" -> <<"stamp", "hist", "tags", "name">>
      [] OTHER -> <<>>

\* the _slot_types of the message classes as declared: the type descriptor of
\* every slot, by name
DeclaredSlotTypes ==
    [cls \in MsgClasses |->
        CASE cls = "Point" -> [x |-> "int64", y |-> "int64"]
          [] cls = "Time"  -> [sec |-> "int32", nanosec |-> "uint32"]
          [] OTHER         -> [stamp |-> "Time", hist |-> "Time[1]",
                               tags |-> "string[]", name |-> "string"]]

TimeMsg(sec) == PyMsg("Time", [sec |-> PyInt(sec), nanosec |-> PyInt(0)])

\* message_type(): the default instance of a python type or message class
Default(t) ==
    CASE t = "int"   -> PyInt(0)
      [] t = "str"   -> PyStr("")
      [] t = "list"  -> PyList(<<>>)
      [] t = "Point" -> PyMsg("Point", [x |-> PyInt(0), y |-> PyInt(0)])
      [] t = "Time"  -> TimeMsg(0)
      [] t = "Track" -> PyMsg("Track", [stamp |-> TimeMsg(0),
                                        hist  |-> PyList(<<TimeMsg(0)>>),
                                        tags  |-> PyList(<<>>),
                                        name  |-> PyStr("")])
      [] OTHER -> None

\* get_message_class(type_str): the class, or None when it does not resolve
get_message_class(type_str) ==
    IF type_str \in MsgClasses THEN type_str ELSE "None"

\* hasattr(x, '__slots__'): true of message instances only
HasSlots(x) == x.t \in MsgClasses

\* x is None
IsNone(x) == x.t = "NoneType"

IndexTok(index) == "[" \o ToString(index) \o "]"

(***************************************************************************)
(* The expression evaluator.                                               *)
(***************************************************************************)
\* a // b on python ints, b # 0
FloorDiv(a, b) ==
    IF b > 0 THEN a \div b ELSE -(((-b) - 1 + a) \div (-b))

Raise == [ok |-> FALSE, val |-> None]
Value(x) == [ok |-> TRUE, val |-> x]

\* eval(expression, {}, self._eval_locals) with _eval_locals['i'] = i and
\* now() returning a Time of `now` seconds: the value, or an exception.
\* `inf` is math.inf, merged into the context by __init__.
PyEval(expression, i, now) ==
    CASE expression \in {"i*2", "i*2 "}  -> Value(PyInt(i * 2))
      [] expression = "1/0"              -> Raise
      [] expression = "2//(2-i)"         -> IF i = 2 THEN Raise   \* ZeroDivisionError
                                            ELSE Value(PyInt(FloorDiv(2, 2 - i)))
      [] expression = "inf if i else 0"  -> IF i = 0 THEN Value(PyInt(0))
                                                     ELSE Value(PyFloatInf)
      [] expression = "now()"            -> Value(TimeMsg(now))
      [] expression = "['a', 'b']"       -> Value(PyList(<<PyStr("a"), PyStr("b")>>))
      [] expression = "[['a']][i]"       -> IF i = 0 THEN Value(PyList(<<PyStr("a")>>))
                                                     ELSE Raise
      [] OTHER                           -> Raise   \* "" is a SyntaxError

\* str(value)
Str(x) ==
    CASE x.t = "int"   -> ToString(x.v)
      [] x.t = "str"   -> x.v
      [] x.t = "float" -> x.v
      [] x.t = "list"  -> IF Len(x.v) = 2 THEN "['a', 'b']"
                          ELSE IF Len(x.v) = 1 THEN "['a']" ELSE "[]"
      [] x.t = "Time"  -> "Time(sec=" \o ToString(x.v.sec.v) \o ", nanosec=0)"
      [] OTHER         -> "None"

\* slot_type(value) of line 324: int(inf) raises OverflowError
Convert(slot_type, x) ==
    IF slot_type = "int" /\ x.t = "float" /\ x.v = "inf"
    THEN [raised |-> TRUE, value |-> None]
    ELSE [raised |-> FALSE, value |-> [t |-> slot_type, v |-> x.v]]

evaluate_expression(expression, slot_type, i, now) ==
    LET ev == PyEval(expression, i, now) IN
    IF slot_type = "str"
    THEN [raised  |-> FALSE, success |-> TRUE,
          value   |-> IF ev.ok THEN PyStr(Str(ev.val)) ELSE PyStr(expression)]
    ELSE IF ~ev.ok
    THEN [raised |-> FALSE, success |-> FALSE, value |-> None]
    ELSE LET type_set == {slot_type, ev.val.t}
             conv == IF type_set \subseteq list_types \/ type_set \subseteq numeric_types
                     THEN Convert(slot_type, ev.val)
                     ELSE [raised |-> FALSE, value |-> ev.val]
         IN IF conv.raised
            THEN [raised |-> TRUE, success |-> FALSE, value |-> None]
            ELSE IF conv.value.t = slot_type   \* isinstance(value, slot_type)
                 THEN [raised |-> FALSE, success |-> TRUE, value |-> conv.value]
                 ELSE [raised |-> FALSE, success |-> FALSE, value |-> None]

(***************************************************************************)
(* The tree filler.  The result holds what the call returns (ret), the     *)
(* message as mutated in place (msg), whether an exception left the call   *)
(* (raised), _eval_locals['i'] afterwards (ei) and the paths whose         *)
(* expression was evaluated (evald).                                       *)
(***************************************************************************)
HasExpression(expressions, topic_name) ==
    topic_name \in DOMAIN expressions /\ expressions[topic_name] # ""

FillResult(raised, ret, msg, ei, evald) ==
    [raised |-> raised, ret |-> ret, msg |-> msg, ei |-> ei, evald |-> evald]

RECURSIVE fill_message_slots(_, _, _, _, _, _)
RECURSIVE FillFields(_, _, _, _, _, _, _, _)
RECURSIVE FillItems(_, _, _, _, _, _, _, _)

\* a faulty override, which keeps the value of the slot when the evaluation
\* fails instead of taking the default of its type; C4 must tell it from the
\* one of lines 336-348
FillOverrideKeepsValue(message, topic_name, expressions, counter, now) ==
    LET r == evaluate_expression(expressions[topic_name], message.t, counter, now) IN
    IF r.raised
    THEN FillResult(TRUE, None, message, counter, {topic_name})
    ELSE FillResult(FALSE, IF r.success THEN r.value ELSE message,
                    message, counter, {topic_name})

\* a faulty override, which adds an evaluated int to the value of the slot
\* instead of replacing it; C19 must tell it from the one of lines 336-348
FillOverrideAccumulates(message, topic_name, expressions, counter, now) ==
    LET r == evaluate_expression(expressions[topic_name], message.t, counter, now) IN
    IF r.raised
    THEN FillResult(TRUE, None, message, counter, {topic_name})
    ELSE FillResult(FALSE,
                    IF r.success
                    THEN IF message.t = "int" THEN PyInt(message.v + r.value.v) ELSE r.value
                    ELSE Default(message.t),
                    message, counter, {topic_name})

\* lines 336-348: the path has an expression
FillOverride(message, topic_name, expressions, counter, now) ==
    LET r == evaluate_expression(expressions[topic_name], message.t, counter, now) IN
    IF r.raised
    THEN FillResult(TRUE, None, message, counter, {topic_name})
    ELSE FillResult(FALSE, IF r.success THEN r.value ELSE Default(message.t),
                    message, counter, {topic_name})

\* lines 351-357: the fields k.. of a message instance
FillFields(message, topic_name, expressions, counter, ei, now, k, evald) ==
    IF k > Len(Fields(message.t))
    THEN FillResult(FALSE, None, message, ei, evald)
    ELSE LET slot_name == Fields(message.t)[k]
             r == fill_message_slots(message.v[slot_name], Append(topic_name, slot_name),
                                     expressions, counter, ei, now)
             kept == [message EXCEPT !.v[slot_name] = r.msg]
         IN IF r.raised
            THEN FillResult(TRUE, None, kept, r.ei, evald \cup r.evald)
            ELSE FillFields(IF ~IsNone(r.ret)
                            THEN [message EXCEPT !.v[slot_name] = r.ret]
                            ELSE kept,
                            topic_name, expressions, counter, r.ei, now, k + 1,
                            evald \cup r.evald)

\* lines 359-365: the elements k.. of a non-empty list
FillItems(message, topic_name, expressions, counter, ei, now, k, evald) ==
    IF k > Len(message.v)
    THEN FillResult(FALSE, None, message, ei, evald)
    ELSE LET r == fill_message_slots(message.v[k], Append(topic_name, IndexTok(k - 1)),
                                     expressions, counter, ei, now)
             kept == [message EXCEPT !.v[k] = r.msg]
         IN IF r.raised
            THEN FillResult(TRUE, None, kept, r.ei, evald \cup r.evald)
            ELSE FillItems(IF ~HasSlots(message.v[1]) /\ ~IsNone(r.ret)
                           THEN [message EXCEPT !.v[k] = r.ret]
                           ELSE kept,
                           topic_name, expressions, counter, r.ei, now, k + 1,
                           evald \cup r.evald)

fill_message_slots(message, topic_name, expressions, counter, ei, now) ==
    IF HasExpression(expressions, topic_name)
    THEN FillOverride(message, topic_name, expressions, counter, now)
    ELSE IF message.t \in MsgClasses
    THEN FillFields(message, topic_name, expressions, counter, ei, now, 1, {})
    ELSE IF message.t \in list_types /\ Len(message.v) > 0
    THEN FillItems(message, topic_name, expressions, counter, ei, now, 1, {})
    ELSE FillResult(FALSE, None, message, ei, {})


(***************************************************************************)
(* Floats (the rate) are the values "0.0", "1.0", "inf" and "1e-306",      *)
(* written as their repr.                                                  *)
(***************************************************************************)
Rates == {"0.0", "1.0", "inf", "1e-306"}

\* rate > 0
Positive(rate) == rate \in {"1.0", "inf", "1e-306"}

\* int(1000.0 / rate) raises OverflowError when the quotient is infinite
IntervalRaises(rate) == rate = "1e-306"

\* float(new_value): the value, or "ValueError"
ParseFloat(new_value) ==
    CASE new_value \in {"0", "0.0"}     -> "0.0"
      [] new_value \in {"1", "1.0"}     -> "1.0"
      [] new_value = "inf"              -> "inf"
      [] new_value = "1e-306"           -> "1e-306"
      [] OTHER                          -> "ValueError"

\* '%.2f' % rate
Format2f(rate) ==
    CASE rate = "1.0" -> "1.00"
      [] rate = "inf" -> "inf"
      [] OTHER        -> "0.00"

\* eval(repr(rate)) in the module's namespace: the name inf is not defined there
EvalReprRaises(rate) == rate = "inf"

\* new_value.lower()
Lower(new_value) ==
    CASE new_value = "True" -> "true"
      [] new_value = "YES"  -> "yes"
      [] OTHER              -> new_value

\* python truth of the stored enabled value: True, False or ''
Truthy(enabled) == enabled = "True"

(***************************************************************************)
(* Topic names and type descriptors.                                       *)
(***************************************************************************)
Namespace == "/"

\* a faulty validation, which accepts every name; C10 must tell it from the
\* one of line 106
ValidTopicAny(topic_name) == TRUE

\* self._node._validate_topic_or_service_name(topic_name) accepts the name
ValidTopic(topic_name) == topic_name # ""

StartsWithSlash(topic_name) == topic_name \in {"/a", "/b"}

\* _extract_array_info on a type descriptor: <<base type, array size or -1 for None>>
extract_array_info(type_str) ==
    CASE type_str = "Point[1]" -> <<"Point", 1>>
      [] type_str = "Point[]"  -> <<"Point", 0>>
      [] OTHER                 -> <<type_str, -1>>

\* a faulty constructor, which hands out a Point for a type that does not
\* resolve; C18 must tell it from the one of lines 273-292
create_message_instance_any(type_str) ==
    LET info == extract_array_info(type_str)
        base_message_type == get_message_class(info[1])
    IN IF base_message_type = "None" THEN Default("Point")
       ELSE IF info[2] # -1
       THEN PyList([k \in 1..info[2] |-> Default(base_message_type)])
       ELSE Default(base_message_type)

create_message_instance(type_str) ==
    LET info == extract_array_info(type_str)
        base_message_type == get_message_class(info[1])
    IN IF base_message_type = "None" THEN None
       ELSE IF info[2] # -1
       THEN PyList([k \in 1..info[2] |-> Default(base_message_type)])
       ELSE Default(base_message_type)

(***************************************************************************)
(* What the last handler did: the slot called (op) and its publisher id,   *)
(* whether an exception left it (raised), whether it handed a message to   *)
(* the bus client (sent, msg), the text it returned to the caller (ret,    *)
(* <<>> for None), the warning it logged (warn) and the paths whose        *)
(* expression it evaluated (evald).                                        *)
(***************************************************************************)
Event(op, id) ==
    [op |-> op, id |-> id, raised |-> FALSE, sent |-> FALSE, msg |-> None,
     ret |-> <<>>, warn |-> "", evald |-> {}]

Raised(op, id) == [Event(op, id) EXCEPT !.raised = TRUE]

Init ==
    /\ publishers = <<>>
    /\ id_counter = 0
    /\ eval_i = 0
    /\ node_pubs = {}
    /\ timers = <<>>
    /\ slot_types = DeclaredSlotTypes
    /\ settings = <<>>
    /\ last = Event("init", -1)

\* d with key k bound to x (d[k] = x on a python dict)
Put(d, k, x) == [j \in DOMAIN d \cup {k} |-> IF j = k THEN x ELSE d[j]]

\* d without key k (del d[k])
Del(d, k) == [j \in DOMAIN d \ {k} |-> d[j]]

(***************************************************************************)
(* _add_publisher on the plugin's state w = [publishers, id_counter,       *)
(* node_pubs, timers]: the state afterwards, and whether it raised.        *)
(***************************************************************************)
World == [publishers |-> publishers, id_counter |-> id_counter,
          node_pubs |-> node_pubs, timers |-> timers]

AddResult(w, raised, warn) == [w |-> w, raised |-> raised, warn |-> warn]

\* a faulty counter, which stays where it is; C13 must tell it from the one
\* of line 121
NextIdSame(id) == id

\* line 121: self._id_counter += 1
NextId(id) == id + 1

add_publisher_info(w, publisher_info) ==
    LET id == w.id_counter
        w1 == [w EXCEPT !.id_counter = NextId(id)]
        message_instance == create_message_instance(publisher_info.type_name)
        topic_name == IF StartsWithSlash(publisher_info.topic_name)
                      THEN publisher_info.topic_name
                      ELSE Namespace \o publisher_info.topic_name
        entry == [publisher_id |-> id,
                  topic_name |-> topic_name,
                  type_name |-> publisher_info.type_name,
                  rate |-> publisher_info.rate,
                  enabled |-> publisher_info.enabled,
                  counter |-> 0,
                  expressions |-> publisher_info.expressions,
                  message_instance |-> message_instance,
                  publisher |-> id]
        w2 == [w1 EXCEPT !.publishers = Put(@, id, entry),
                         !.node_pubs = @ \cup {id},
                         !.timers = Put(@, id, FALSE)]
    IN IF IsNone(message_instance)
       THEN AddResult(w1, FALSE, "UnresolvableType")
       ELSE IF get_message_class(publisher_info.type_name) = "None"
       THEN AddResult(w1, TRUE, "")
       ELSE IF Truthy(entry.enabled) /\ Positive(entry.rate)
       THEN IF IntervalRaises(entry.rate)
            THEN AddResult(w2, TRUE, "")
            ELSE AddResult([w2 EXCEPT !.timers[id] = TRUE], FALSE, "")
       ELSE AddResult(w2, FALSE, "")

SetWorld(w) ==
    /\ publishers' = w.publishers
    /\ id_counter' = w.id_counter
    /\ node_pubs' = w.node_pubs
    /\ timers' = w.timers

\* the slot add_publisher(topic_name, type_name, rate, enabled)
add_publisher(topic_name, type_name, rate, enabled) ==
    /\ id_counter < MaxId
    /\ IF ~ValidTopic(topic_name)
       THEN /\ last' = [Event("add_publisher", -1) EXCEPT !.warn = "InvalidTopicName"]
            /\ UNCHANGED <<publishers, id_counter, node_pubs, timers>>
       ELSE LET r == add_publisher_info(World,
                        [topic_name |-> topic_name, type_name |-> type_name,
                         rate |-> rate,
                         enabled |-> IF enabled THEN "True" ELSE "False",
                         expressions |-> <<>>])
            IN /\ SetWorld(r.w)
               /\ last' = [Event("add_publisher", id_counter) EXCEPT
                              !.raised = r.raised, !.warn = r.warn]
    /\ UNCHANGED <<eval_i, slot_types, settings>>


\* the handler lookup self._publishers[publisher_id] of change_publisher
\* raises KeyError for an id that is not registered
UnknownId(op, publisher_id) ==
    /\ publisher_id \notin DOMAIN publishers
    /\ last' = Raised(op, publisher_id)
    /\ UNCHANGED <<publishers, id_counter, eval_i, node_pubs, timers, slot_types, settings>>

\* change_publisher(publisher_id, _, 'topic', new_value): the enabled flag
change_publisher_topic(publisher_id, new_value) ==
    \/ UnknownId("change_topic", publisher_id)
    \/ /\ publisher_id \in DOMAIN publishers
       /\ LET publisher_info == publishers[publisher_id]
              enabled == IF new_value = "" THEN "''"
                         ELSE IF Lower(new_value) \in {"1", "true", "yes"}
                              THEN "True" ELSE "False"
              start == Truthy(enabled) /\ Positive(publisher_info.rate)
              raises == start /\ IntervalRaises(publisher_info.rate)
          IN /\ publishers' = [publishers EXCEPT ![publisher_id].enabled = enabled]
             /\ timers' = IF raises THEN timers
                          ELSE [timers EXCEPT ![publisher_id] = start]
             /\ last' = [Event("change_topic", publisher_id) EXCEPT !.raised = raises]
       /\ UNCHANGED <<id_counter, eval_i, node_pubs, slot_types, settings>>

\* change_publisher(publisher_id, _, 'rate', new_value)
change_publisher_rate(publisher_id, new_value) ==
    \/ UnknownId("change_rate", publisher_id)
    \/ /\ publisher_id \in DOMAIN publishers
       /\ LET publisher_info == publishers[publisher_id]
              rate == ParseFloat(new_value)
              start == Truthy(publisher_info.enabled) /\ Positive(rate)
          IN IF rate = "ValueError"
             THEN /\ last' = [Event("change_rate", publisher_id) EXCEPT
                                 !.warn = "could not parse rate value",
                                 !.ret = <<Format2f(publisher_info.rate)>>]
                  /\ UNCHANGED <<publishers, timers>>
             ELSE /\ publishers' = [publishers EXCEPT ![publisher_id].rate = rate]
                  /\ IF start /\ IntervalRaises(rate)
                     THEN /\ timers' = [timers EXCEPT ![publisher_id] = FALSE]
                          /\ last' = Raised("change_rate", publisher_id)
                     ELSE /\ timers' = [timers EXCEPT ![publisher_id] = start]
                          /\ last' = [Event("change_rate", publisher_id) EXCEPT
                                         !.ret = <<Format2f(rate)>>]
       /\ UNCHANGED <<id_counter, eval_i, node_pubs, slot_types, settings>>

IsIndexTok(tok) == tok \in {"[0]", "[1]"}

\* the integer of an index token
IndexOf(tok) == IF tok = "[0]" THEN 0 ELSE 1

\* the python expression message.a.b[0] of line 180 evaluates without an error
RECURSIVE Navigable(_, _)
Navigable(message, slot_path) ==
    IF slot_path = <<>> THEN TRUE
    ELSE IF IsIndexTok(Head(slot_path))
    THEN /\ message.t \in list_types
         /\ IndexOf(Head(slot_path)) < Len(message.v)
         /\ Navigable(message.v[IndexOf(Head(slot_path)) + 1], Tail(slot_path))
    ELSE /\ message.t \in MsgClasses
         /\ Head(slot_path) \in DOMAIN message.v
         /\ Navigable(message.v[Head(slot_path)], Tail(slot_path))

\* the object at slot_path below message
RECURSIVE GetAt(_, _)
GetAt(message, slot_path) ==
    IF slot_path = <<>> THEN message
    ELSE IF IsIndexTok(Head(slot_path))
    THEN GetAt(message.v[IndexOf(Head(slot_path)) + 1], Tail(slot_path))
    ELSE GetAt(message.v[Head(slot_path)], Tail(slot_path))

\* message with the object at slot_path replaced by x
RECURSIVE SetAt(_, _, _)
SetAt(message, slot_path, x) ==
    IF slot_path = <<>> THEN x
    ELSE IF IsIndexTok(Head(slot_path))
    THEN [message EXCEPT !.v[IndexOf(Head(slot_path)) + 1] = SetAt(@, Tail(slot_path), x)]
    ELSE [message EXCEPT !.v[Head(slot_path)] = SetAt(@, Tail(slot_path), x)]

\* change_publisher(publisher_id, topic_name, 'type', new_value), where
\* topic_name is the entry's topic followed by slot_path
change_publisher_type(publisher_id, slot_path, new_value) ==
    \/ UnknownId("change_type", publisher_id)
    \/ /\ publisher_id \in DOMAIN publishers
       /\ slot_path # <<>>
       /\ LET publisher_info == publishers[publisher_id]
              slot_value == create_message_instance(new_value)
              parent_path == SubSeq(slot_path, 1, Len(slot_path) - 1)
              slot_name == slot_path[Len(slot_path)]
              found == /\ Navigable(publisher_info.message_instance, parent_path)
                       /\ LET parent_slot == GetAt(publisher_info.message_instance,
                                                   parent_path)
                          IN /\ parent_slot.t \in MsgClasses
                             /\ slot_name \in DOMAIN parent_slot.v
              cls == GetAt(publisher_info.message_instance, parent_path).t
          IN IF ~found
             THEN /\ last' = Raised("change_type", publisher_id)
                  /\ UNCHANGED <<publishers, slot_types>>
             ELSE IF IsNone(slot_value)
             THEN /\ last' = [Event("change_type", publisher_id) EXCEPT
                                 !.warn = "could not find type",
                                 !.ret = <<slot_types[cls][slot_name]>>]
                  /\ UNCHANGED <<publishers, slot_types>>
             ELSE /\ slot_types' = [slot_types EXCEPT ![cls][slot_name] = new_value]
                  /\ publishers' = [publishers EXCEPT
                        ![publisher_id].message_instance = SetAt(@, slot_path, slot_value)]
                  /\ last' = Event("change_type", publisher_id)
       /\ UNCHANGED <<id_counter, eval_i, node_pubs, timers, settings>>

(***************************************************************************)
(* get_slot_type(message class, slot_path) of rqt_py_common, on the        *)
(* classes above: the python type of the slot and whether it is an array.  *)
(***************************************************************************)
FieldType(cls, slot_name) ==
    CASE cls = "Track" /\ slot_name = "stamp" -> [t |-> "Time", arr |-> FALSE]
      [] cls = "Track" /\ slot_name = "hist"  -> [t |-> "Time", arr |-> TRUE]
      [] cls = "Track" /\ slot_name = "tags"  -> [t |-> "str", arr |-> TRUE]
      [] cls = "Track" /\ slot_name = "name"  -> [t |-> "str", arr |-> FALSE]
      [] OTHER                                -> [t |-> "int", arr |-> FALSE]

RECURSIVE get_slot_type(_, _)
get_slot_type(ft, slot_path) ==
    IF slot_path = <<>> THEN ft
    ELSE IF IsIndexTok(Head(slot_path))
    THEN get_slot_type([ft EXCEPT !.arr = FALSE], Tail(slot_path))
    ELSE get_slot_type(FieldType(ft.t, Head(slot_path)), Tail(slot_path))

\* slot_path names a slot of the class
RECURSIVE ValidPath(_, _)
ValidPath(ft, slot_path) ==
    IF slot_path = <<>> THEN TRUE
    ELSE IF IsIndexTok(Head(slot_path))
    THEN ft.arr /\ ValidPath([ft EXCEPT !.arr = FALSE], Tail(slot_path))
    ELSE /\ ~ft.arr
         /\ \E k \in 1..Len(Fields(ft.t)) : Fields(ft.t)[k] = Head(slot_path)
         /\ ValidPath(FieldType(ft.t, Head(slot_path)), Tail(slot_path))

\* expression[:expression.find('# error')] when the marker is found
StripError(expression) ==
    CASE expression = "i*2 # error x" -> "i*2 "
      [] expression = "# error"       -> ""
      [] OTHER                        -> expression

\* change_publisher(publisher_id, topic_name, 'expression', new_value), where
\* topic_name is the entry's topic followed by slot_path
change_publisher_expression(publisher_id, slot_path, new_value, now) ==
    \/ UnknownId("change_expression", publisher_id)
    \/ /\ publisher_id \in DOMAIN publishers
       /\ ValidPath([t |-> publishers[publisher_id].message_instance.t, arr |-> FALSE],
                    slot_path)
       /\ LET publisher_info == publishers[publisher_id]
              topic_name == <<publisher_info.topic_name>> \o slot_path
              ft == get_slot_type([t |-> publisher_info.message_instance.t,
                                   arr |-> FALSE], slot_path)
              slot_type == IF ft.arr THEN "list" ELSE ft.t
              expression == StripError(new_value)
              ev == evaluate_expression(expression, slot_type, eval_i, now)
              old == publisher_info.expressions
              stored == Put(old, topic_name, expression)
              f == fill_message_slots(publisher_info.message_instance,
                                      <<publisher_info.topic_name>>, stored,
                                      publisher_info.counter, eval_i, now)
          IN IF new_value = ""
             THEN /\ publishers' = [publishers EXCEPT
                        ![publisher_id].expressions = Del(old, topic_name)]
                  /\ last' = Event("change_expression", publisher_id)
                  /\ UNCHANGED eval_i
             ELSE IF ev.raised
             THEN /\ last' = Raised("change_expression", publisher_id)
                  /\ UNCHANGED <<publishers, eval_i>>
             ELSE IF ~ev.success
             THEN /\ last' = [Event("change_expression", publisher_id) EXCEPT
                                 !.ret = <<expression, "# error">>]
                  /\ UNCHANGED <<publishers, eval_i>>
             ELSE /\ publishers' = [publishers EXCEPT
                        ![publisher_id].expressions = IF f.raised THEN old ELSE stored,
                        ![publisher_id].message_instance = f.msg]
                  /\ eval_i' = f.ei
                  /\ last' = [Event("change_expression", publisher_id) EXCEPT
                                 !.ret = IF f.raised THEN <<expression, "# error">>
                                         ELSE <<expression>>,
                                 !.evald = f.evald]
       /\ UNCHANGED <<id_counter, node_pubs, timers, slot_types, settings>>

\* a faulty increment, which C1 must tell from the one of line 373
NextCounterByTwo(counter) == counter + 2

\* line 373: publisher_info['counter'] += 1
NextCounter(counter) == counter + 1

\* a faulty argument, the counter as it was before the increment, which C2
\* must tell from the one of line 378
CounterArgBeforeIncrement(publisher_info) == publisher_info.counter - 1

\* line 378: the counter handed to the tree filler, read after the increment
CounterArg(publisher_info) == publisher_info.counter

\* the slot publish_once(publisher_id), called by the user and by the timers
publish_once(publisher_id, now) ==
    IF publisher_id \notin DOMAIN publishers
    THEN /\ last' = Event("publish_once", publisher_id)
         /\ UNCHANGED <<publishers, id_counter, eval_i, node_pubs, timers, slot_types, settings>>
    ELSE /\ publishers[publisher_id].counter < MaxCounter
         /\ LET publisher_info == [publishers[publisher_id] EXCEPT
                                      !.counter = NextCounter(@)]
                f == fill_message_slots(publisher_info.message_instance,
                                        <<publisher_info.topic_name>>,
                                        publisher_info.expressions,
                                        CounterArg(publisher_info), eval_i, now)
            IN /\ publishers' = [publishers EXCEPT
                      ![publisher_id] = [publisher_info EXCEPT !.message_instance = f.msg]]
               /\ eval_i' = f.ei
               /\ last' = [Event("publish_once", publisher_id) EXCEPT
                              !.raised = f.raised,
                              !.sent = ~f.raised,
                              !.msg = IF f.raised THEN None ELSE f.msg,
                              !.evald = f.evald]
         /\ UNCHANGED <<id_counter, node_pubs, timers, slot_types, settings>>

\* a running QTimer times out: _timeout_mapper maps it to publish_once(id)
timer_timeout(publisher_id, now) ==
    /\ publisher_id \in DOMAIN timers
    /\ timers[publisher_id]
    /\ publish_once(publisher_id, now)

\* a faulty removal, which leaves the timer running; C7 must tell it from
\* the one of lines 381-388
remove_publisher_keeps_timer(publisher_id) ==
    /\ IF publisher_id \notin DOMAIN publishers
       THEN UNCHANGED <<publishers, node_pubs, timers>>
       ELSE /\ node_pubs' = node_pubs \ {publishers[publisher_id].publisher}
            /\ publishers' = Del(publishers, publisher_id)
            /\ UNCHANGED timers
    /\ last' = Event("remove_publisher", publisher_id)
    /\ UNCHANGED <<id_counter, eval_i, slot_types, settings>>

\* a faulty removal, which subscripts the registry without the lookup of
\* line 383 and so raises for an id that is not registered; C12 must tell it
\* from the one of lines 381-388
remove_publisher_unchecked(publisher_id) ==
    /\ IF publisher_id \notin DOMAIN publishers
       THEN /\ last' = Raised("remove_publisher", publisher_id)
            /\ UNCHANGED <<publishers, node_pubs, timers>>
       ELSE /\ timers' = [timers EXCEPT ![publisher_id] = FALSE]
            /\ node_pubs' = node_pubs \ {publishers[publisher_id].publisher}
            /\ publishers' = Del(publishers, publisher_id)
            /\ last' = Event("remove_publisher", publisher_id)
    /\ UNCHANGED <<id_counter, eval_i, slot_types, settings>>

\* the slot remove_publisher(publisher_id)
remove_publisher(publisher_id) ==
    /\ IF publisher_id \notin DOMAIN publishers
       THEN UNCHANGED <<publishers, node_pubs, timers>>
       ELSE /\ timers' = [timers EXCEPT ![publisher_id] = FALSE]
            /\ node_pubs' = node_pubs \ {publishers[publisher_id].publisher}
            /\ publishers' = Del(publishers, publisher_id)
    /\ last' = Event("remove_publisher", publisher_id)
    /\ UNCHANGED <<id_counter, eval_i, slot_types, settings>>


\* the registered ids in the order of the dict: the order of insertion, which
\* is the order of the ids
RECURSIVE SortedIds(_)
SortedIds(ids) ==
    IF ids = {} THEN <<>>
    ELSE LET m == CHOOSE i \in ids : \A j \in ids : i <= j
         IN <<m>> \o SortedIds(ids \ {m})

\* the copy of an entry that save_settings writes
Descriptor(publisher_info) ==
    [publisher_id |-> publisher_info.publisher_id,
     topic_name   |-> publisher_info.topic_name,
     type_name    |-> publisher_info.type_name,
     rate         |-> publisher_info.rate,
     enabled      |-> "False",
     counter      |-> publisher_info.counter,
     expressions  |-> publisher_info.expressions]

save_settings ==
    /\ settings' = [k \in 1..Cardinality(DOMAIN publishers) |->
                       Descriptor(publishers[SortedIds(DOMAIN publishers)[k]])]
    /\ last' = Event("save_settings", -1)
    /\ UNCHANGED <<publishers, id_counter, eval_i, node_pubs, timers, slot_types>>

\* a faulty clean-up, which empties the registry without destroying the bus
\* handles; C20 must tell it from the one of lines 411-416
CleanedUpLeaks(w) ==
    [w EXCEPT !.publishers = <<>>,
              !.timers = [id \in DOMAIN @ |->
                             IF id \in DOMAIN w.publishers THEN FALSE ELSE @[id]]]

\* clean_up_publishers on the plugin's state
CleanedUp(w) ==
    [w EXCEPT !.publishers = <<>>,
              !.node_pubs = @ \ {w.publishers[id].publisher : id \in DOMAIN w.publishers},
              !.timers = [id \in DOMAIN @ |->
                             IF id \in DOMAIN w.publishers THEN FALSE ELSE @[id]]]

clean_up_publishers ==
    /\ SetWorld(CleanedUp(World))
    /\ last' = Event("clean_up_publishers", -1)
    /\ UNCHANGED <<eval_i, slot_types, settings>>

shutdown_plugin ==
    /\ SetWorld(CleanedUp(World))
    /\ last' = Event("shutdown_plugin", -1)
    /\ UNCHANGED <<eval_i, slot_types, settings>>

\* the loop of restore_settings over the descriptors k.. of the list
RECURSIVE AddAll(_, _, _)
AddAll(w, descriptors, k) ==
    IF k > Len(descriptors) THEN AddResult(w, FALSE, "")
    ELSE LET r == add_publisher_info(w, descriptors[k])
         IN IF r.raised THEN r ELSE AddAll(r.w, descriptors, k + 1)

restore_settings ==
    /\ id_counter + Len(settings) <= MaxRestoredId
    /\ LET w == CleanedUp(World)
           raises == \E k \in 1..Len(settings) : EvalReprRaises(settings[k].rate)
           r == IF raises THEN AddResult(w, TRUE, "") ELSE AddAll(w, settings, 1)
       IN /\ SetWorld(r.w)
          /\ last' = [Event("restore_settings", -1) EXCEPT !.raised = r.raised]
    /\ UNCHANGED <<eval_i, slot_types, settings>>


(***************************************************************************)
(* The plugin handles events until it is shut down.                        *)
(***************************************************************************)
Alive == last.op # "shutdown_plugin"

Ids == 0..(MaxId - 1)
Clock == {5}

(***************************************************************************)
(* Spec: the registry and the timers.  Entries are added, enabled,         *)
(* disabled, given a new rate, published and removed in any order.         *)
(***************************************************************************)
AddPublisher ==
    \E topic_name \in {"/a", ""}, type_name \in {"Point", "Nope", "Point[1]"},
       rate \in {"0.0", "1.0"}, enabled \in BOOLEAN :
        Alive /\ add_publisher(topic_name, type_name, rate, enabled)

ChangeTopic ==
    \E id \in Ids, new_value \in {"True", "false"} :
        Alive /\ change_publisher_topic(id, new_value)

ChangeRate ==
    \E id \in Ids, new_value \in {"0", "1", "1e-306", "fast"} :
        Alive /\ change_publisher_rate(id, new_value)

PublishOnce ==
    \E id \in Ids, now \in Clock : Alive /\ publish_once(id, now)

TimerTimeout ==
    \E id \in Ids, now \in Clock : Alive /\ timer_timeout(id, now)

RemovePublisher ==
    \E id \in Ids : Alive /\ remove_publisher(id)

CleanUpPublishers == Alive /\ clean_up_publishers

ShutdownPlugin == Alive /\ shutdown_plugin

Next ==
    \/ AddPublisher
    \/ ChangeTopic
    \/ ChangeRate
    \/ PublishOnce
    \/ TimerTimeout
    \/ RemovePublisher
    \/ CleanUpPublishers
    \/ ShutdownPlugin

Spec == Init /\ [][Next]_vars

(***************************************************************************)
(* EntrySpec: one Point entry at a time, with every change request and     *)
(* publish_once interleaved.                                               *)
(***************************************************************************)
EntryExpressions == {"", "i*2", "1/0", "2//(2-i)", "inf if i else 0"}

EntryAdd ==
    \E rate \in {"0.0", "1.0"}, enabled \in BOOLEAN :
        publishers = <<>> /\ add_publisher("/a", "Point", rate, enabled)

EntryChangeTopic ==
    \E id \in Ids, new_value \in {"True", "false"} : change_publisher_topic(id, new_value)

EntryChangeRate ==
    \E id \in Ids, new_value \in {"0", "1"} : change_publisher_rate(id, new_value)

\* the sub-paths given to the type changes: the field y and, below a y that
\* has become a Time, its field sec
EntryTypePaths == {<<"y">>, <<"y", "sec">>}

EntryChangeType ==
    \E id \in Ids, slot_path \in EntryTypePaths, new_value \in {"Time", "Nope"} :
        change_publisher_type(id, slot_path, new_value)

EntryChangeExpression ==
    \E id \in Ids, new_value \in EntryExpressions, now \in Clock :
        change_publisher_expression(id, <<"x">>, new_value, now)

EntryPublishOnce ==
    \E id \in Ids, now \in Clock : publish_once(id, now)

EntryTimerTimeout ==
    \E id \in Ids, now \in Clock : timer_timeout(id, now)

EntryRemove ==
    \E id \in Ids : remove_publisher(id)

EntryNext ==
    \/ EntryAdd
    \/ EntryChangeTopic
    \/ EntryChangeRate
    \/ EntryChangeType
    \/ EntryChangeExpression
    \/ EntryPublishOnce
    \/ EntryTimerTimeout
    \/ EntryRemove

EntrySpec == Init /\ [][EntryNext]_vars


(***************************************************************************)
(* Claims on one entry (EntrySpec).                                        *)
(***************************************************************************)
ChangeOps == {"change_topic", "change_rate", "change_type", "change_expression"}

PathX(id) == <<publishers[id].topic_name, "x">>

\* the entry has just been handed to publish_once, which sent its message
Published(id) ==
    /\ last.op = "publish_once"
    /\ last.id = id
    /\ id \in DOMAIN publishers
    /\ last.sent

\* C1: the emission counter of an entry is 0 when the entry is added; it goes
\* up by exactly 1 in a publish_once call for the entry (manual or timer),
\* and no other step changes it: it never goes down and the change requests
\* (enabled, rate, type, expression) leave it as it was.
C1_CounterMonotonic ==
    [][ /\ \A id \in DOMAIN publishers' \ DOMAIN publishers :
              publishers'[id].counter = 0
        /\ \A id \in DOMAIN publishers \cap DOMAIN publishers' :
              LET before == publishers[id].counter
                  after == publishers'[id].counter
              IN /\ after \in {before, before + 1}
                 /\ (last'.op = "publish_once" /\ last'.id = id) => after = before + 1
                 /\ after # before => (last'.op = "publish_once" /\ last'.id = id)
                 /\ last'.op \in ChangeOps => after = before ]_vars

\* C1 witness: an entry that has published twice accepts a new expression
C1_Witness ==
    \E id \in DOMAIN publishers :
        /\ publishers[id].counter = 2
        /\ last.op = "change_expression"
        /\ last.id = id
        /\ last.ret = <<"i*2">>

\* C2 as stated: with only i*2 at x, the k-th publish of a fresh entry emits
\* x = 2*(k-1), y = 0, that is x = 0, 2, 4.
C2_EmitsFromZero ==
    \A id \in DOMAIN publishers :
        ( /\ Published(id)
          /\ publishers[id].expressions = (PathX(id) :> "i*2")
          /\ last.msg.v.y.t = "int" )
        => /\ last.msg.v.x = PyInt(2 * (publishers[id].counter - 1))
           /\ last.msg.v.y = PyInt(0)

\* C2 amended: with only i*2 at x, the k-th publish of an entry emits
\* x = 2*k, y = 0, that is x = 2, 4, 6 for a fresh entry: the counter is
\* incremented before the expressions are evaluated.
C2_EmitsFromTwo ==
    \A id \in DOMAIN publishers :
        ( /\ Published(id)
          /\ publishers[id].expressions = (PathX(id) :> "i*2")
          /\ last.msg.v.y.t = "int" )
        => /\ last.msg.v.x = PyInt(2 * publishers[id].counter)
           /\ last.msg.v.y = PyInt(0)

\* C2 witness: the third publish of an entry with i*2 at x emits x = 6
C2_Witness ==
    \E id \in DOMAIN publishers :
        /\ Published(id)
        /\ publishers[id].expressions = (PathX(id) :> "i*2")
        /\ publishers[id].counter = 3
        /\ last.msg.v.x = PyInt(6)
        /\ last.msg.v.y = PyInt(0)

\* C3: a publish_once call on a registered entry never raises and always
\* hands a message to the bus client.
C3_PublishNeverRaises ==
    (last.op = "publish_once" /\ last.id \in DOMAIN publishers)
        => (~last.raised /\ last.sent)

\* C4 as stated, for the publish that directly follows the request: after the
\* user has set 1/0 at x, the message emitted holds 0 at x.
C4_DefaultAfterFailingRequest ==
    [][ ( /\ last.op = "change_expression"
          /\ last.ret = <<"1/0", "# error">>
          /\ last'.op = "publish_once"
          /\ last'.id = last.id
          /\ last'.sent )
        => last'.msg.v.x = PyInt(0) ]_vars

\* the expression stored at x fails to evaluate at the entry's counter
FailsAtX(id) ==
    /\ HasExpression(publishers[id].expressions, PathX(id))
    /\ \A now \in Clock :
          ~PyEval(publishers[id].expressions[PathX(id)], publishers[id].counter, now).ok

\* C4 amended: a failing expression (such as 1/0) requested at a numeric path
\* is rejected and nothing is stored, so the entry is as it was and the path
\* keeps its previous expression; and whenever the expression stored at a
\* numeric path fails to evaluate in a publish_once, the call does not raise
\* and the message emitted holds the default 0 at that field.
C4_RejectedOrDefault ==
    /\ [][ (last'.op = "change_expression" /\ last'.ret = <<"1/0", "# error">>)
           => UNCHANGED <<publishers, eval_i>> ]_vars
    /\ [](\A id \in DOMAIN publishers :
            (last.op = "publish_once" /\ last.id = id /\ FailsAtX(id))
            => (last.sent /\ ~last.raised /\ last.msg.v.x = PyInt(0)))

\* C4 witness: an entry whose x was 2 publishes with a stored expression that
\* fails at its counter
C4_Witness ==
    \E id \in DOMAIN publishers :
        /\ Published(id)
        /\ PathX(id) \in DOMAIN publishers[id].expressions
        /\ publishers[id].expressions[PathX(id)] = "2//(2-i)"
        /\ publishers[id].counter = 2
        /\ last.msg.v.x = PyInt(0)


(***************************************************************************)
(* Claims on the registry and the timers (Spec).                           *)
(***************************************************************************)
\* the ids given out so far that are not in the registry: rejected at add
\* time, or removed
Gone(id) == id < id_counter /\ id \notin DOMAIN publishers

\* C7: an entry that has left the registry (remove_publisher or
\* clean_up_publishers) never comes back and never sends again, whether a
\* timer times out or publish_once is called with its id; its timer is
\* stopped and its bus handle is released.
C7_NoSendAfterRemoval ==
    /\ [](\A id \in Ids : Gone(id) =>
            /\ id \notin node_pubs
            /\ id \in DOMAIN timers => ~timers[id])
    /\ [][\A id \in Ids : Gone(id) =>
            /\ id \notin DOMAIN publishers'
            /\ ~(last'.op = "publish_once" /\ last'.id = id /\ last'.sent) ]_vars

\* C7 witness: publish_once is called for an entry that had a timer and was
\* removed, while another entry is still registered
C7_Witness ==
    \E id \in Ids :
        /\ Gone(id)
        /\ id \in DOMAIN timers
        /\ last.op = "publish_once"
        /\ last.id = id
        /\ publishers # <<>>

\* C8: the timer of every registered entry runs if and only if the entry is
\* enabled and its rate is greater than 0.
C8_TimerIffEnabled ==
    \A id \in DOMAIN publishers :
        timers[id] <=> (Truthy(publishers[id].enabled) /\ Positive(publishers[id].rate))

\* C10: an add_publisher call with an invalid topic name or with a type that
\* does not resolve leaves the registered entries, their fields, the bus
\* handles and the timers as they were.
C10_RejectedAddCreatesNothing ==
    [][ ( \/ \E type_name \in {"Point", "Nope"}, rate \in Rates, enabled \in BOOLEAN :
                add_publisher("", type_name, rate, enabled)
          \/ \E rate \in Rates, enabled \in BOOLEAN :
                add_publisher("/a", "Nope", rate, enabled) )
        => UNCHANGED <<publishers, node_pubs, timers>> ]_vars

\* C10 witness: an add request is rejected for its type while an enabled
\* entry is registered
C10_Witness ==
    /\ last.op = "add_publisher"
    /\ last.warn = "UnresolvableType"
    /\ \E id \in DOMAIN publishers : timers[id]


(***************************************************************************)
(* FillSpec: one Track entry at a time.  Expressions are put on a          *)
(* composite field, on its child, on the arrays, on their elements and on  *)
(* a string, and the entry is published.                                   *)
(***************************************************************************)
FillRequests ==
    { <<<<"stamp">>, "now()">>,
      <<<<"stamp", "sec">>, "i*2">>,
      <<<<"hist">>, "[['a']][i]">>,
      <<<<"hist", "[0]">>, "now()">>,
      <<<<"hist", "[0]", "sec">>, "i*2">>,
      <<<<"tags">>, "['a', 'b']">>,      <<<<"tags">>, "">>,
      <<<<"tags", "[0]">>, "i*2">>,
      <<<<"name">>, "1/0">>,             <<<<"name">>, "# error">> }

FillAdd ==
    publishers = <<>> /\ add_publisher("/a", "Track", "0.0", FALSE)

FillChangeExpression ==
    \E id \in Ids, request \in FillRequests, now \in Clock :
        /\ id \in DOMAIN publishers
        /\ change_publisher_expression(id, request[1], request[2], now)

FillPublishOnce ==
    \E id \in Ids, now \in Clock : id \in DOMAIN publishers /\ publish_once(id, now)

FillRemove ==
    \E id \in Ids : id \in DOMAIN publishers /\ remove_publisher(id)

FillNext ==
    \/ FillAdd
    \/ FillChangeExpression
    \/ FillPublishOnce
    \/ FillRemove

FillSpec == Init /\ [][FillNext]_vars

(***************************************************************************)
(* Claims on the tree filler (FillSpec).                                   *)
(***************************************************************************)
\* p is a strict prefix of q
StrictPrefix(p, q) == Len(p) < Len(q) /\ SubSeq(q, 1, Len(p)) = p

\* q relative to its prefix p
Below(p, q) == SubSeq(q, Len(p) + 1, Len(q))

\* C5: in one run of the filler, when the map has a non-empty expression at
\* a path p and one at a strict descendant q of p, and p is evaluated, q is
\* not evaluated and the value found at q afterwards is the one inside the
\* value that the override at p produced.
C5_OverrideCoversDescendants ==
    \A id \in DOMAIN publishers : Published(id) =>
        LET publisher_info == publishers[id]
            expressions == publisher_info.expressions
            root == <<publisher_info.topic_name>>
        IN \A p \in DOMAIN expressions, q \in DOMAIN expressions :
            ( /\ HasExpression(expressions, p)
              /\ HasExpression(expressions, q)
              /\ StrictPrefix(p, q)
              /\ p \in last.evald
              /\ Navigable(last.msg, Below(root, q)) ) =>
            /\ q \notin last.evald
            /\ \E now \in Clock :
                  LET produced == FillOverride(GetAt(last.msg, Below(root, p)), p,
                                               expressions, publisher_info.counter, now).ret
                  IN /\ Navigable(produced, Below(p, q))
                     /\ GetAt(last.msg, Below(root, q)) = GetAt(produced, Below(p, q))

\* the shape of a message tree: the class and the fields of a composite, in
\* order, the length of a sequence, and nothing of a scalar
RECURSIVE Shape(_)
Shape(x) ==
    IF x.t \in MsgClasses
    THEN [kind |-> x.t,
          sub  |-> [k \in 1..Len(Fields(x.t)) |-> Shape(x.v[Fields(x.t)[k]])]]
    ELSE IF x.t \in list_types
    THEN [kind |-> "sequence", sub |-> [k \in 1..Len(x.v) |-> Shape(x.v[k])]]
    ELSE [kind |-> "scalar", sub |-> <<>>]

\* C6: a run of the filler (in publish_once, or when an expression is
\* accepted) leaves the shape of the entry's message tree as it was: the same
\* composite fields in the same order and every sequence of the same length.
C6_ShapePreserved ==
    [][ \A id \in DOMAIN publishers \cap DOMAIN publishers' :
            last'.op \in {"publish_once", "change_expression"} =>
                Shape(publishers'[id].message_instance)
                    = Shape(publishers[id].message_instance) ]_vars


(***************************************************************************)
(* PersistSpec: entries are added and edited, the registry is saved and    *)
(* the saved descriptors are restored.                                     *)
(***************************************************************************)
PersistIds == 0..(MaxRestoredId - 1)

PersistAdd ==
    \E topic_name \in {"/a", "b"}, type_name \in {"Point", "Nope"}, enabled \in BOOLEAN :
        Alive /\ add_publisher(topic_name, type_name, "1.0", enabled)

PersistChangeRate ==
    \E id \in PersistIds, new_value \in {"inf"} :
        Alive /\ id \in DOMAIN publishers /\ change_publisher_rate(id, new_value)

PersistChangeExpression ==
    \E id \in PersistIds, now \in Clock :
        Alive /\ id \in DOMAIN publishers
              /\ change_publisher_expression(id, <<"x">>, "i*2", now)

PersistRemove ==
    \E id \in PersistIds : Alive /\ id \in DOMAIN publishers /\ remove_publisher(id)

PersistCleanUp == Alive /\ publishers # <<>> /\ clean_up_publishers

PersistSave == Alive /\ save_settings

PersistRestore == Alive /\ restore_settings

PersistShutdown == Alive /\ shutdown_plugin

PersistNext ==
    \/ PersistAdd
    \/ PersistChangeRate
    \/ PersistChangeExpression
    \/ PersistRemove
    \/ PersistCleanUp
    \/ PersistSave
    \/ PersistRestore
    \/ PersistShutdown

PersistSpec == Init /\ [][PersistNext]_vars

(***************************************************************************)
(* Claims on saving and restoring (PersistSpec).                           *)
(***************************************************************************)
\* the entries of registry d, in order, carry the topic, type, rate and
\* expressions of the descriptors
SameEntries(d, descriptors) ==
    /\ Cardinality(DOMAIN d) = Len(descriptors)
    /\ \A k \in 1..Len(descriptors) :
          LET publisher_info == d[SortedIds(DOMAIN d)[k]] IN
          /\ publisher_info.topic_name = descriptors[k].topic_name
          /\ publisher_info.type_name = descriptors[k].type_name
          /\ publisher_info.rate = descriptors[k].rate
          /\ publisher_info.expressions = descriptors[k].expressions

\* C9: save_settings writes one descriptor per entry, in order, with the
\* entry's topic, type, rate and expressions; restore_settings of the saved
\* descriptors leaves a registry of one entry per descriptor, in the same
\* order, each with the descriptor's topic, type, rate and expressions,
\* enabled false and its timer stopped, and none of the entries that were
\* registered before.
C9_RoundTrip ==
    [][ /\ last'.op = "save_settings" => SameEntries(publishers, settings')
        /\ last'.op = "restore_settings" =>
              /\ SameEntries(publishers', settings)
              /\ \A id \in DOMAIN publishers' :
                    /\ ~Truthy(publishers'[id].enabled)
                    /\ ~timers'[id]
              /\ DOMAIN publishers \cap DOMAIN publishers' = {} ]_vars


(***************************************************************************)
(* Claims on requests for ids that are not registered (Spec).              *)
(***************************************************************************)
\* C11: a change request (enabled, rate, type or expression) for an id that
\* is not in the registry raises no error and leaves the registry and every
\* entry as they were.
C11_ChangeOnUnknownIdIsNoOp ==
    [][ (last'.op \in ChangeOps /\ last'.id \notin DOMAIN publishers)
        => (~last'.raised /\ UNCHANGED <<publishers, node_pubs, timers>>) ]_vars


\* C12: remove_publisher and publish_once with an id that is not in the
\* registry raise no error, send no message, release no bus handle and leave
\* the registry, the handles, the timers and the id counter as they were.
C12_UnknownIdIsNoOp ==
    [][ (last'.op \in {"remove_publisher", "publish_once"}
            /\ last'.id \notin DOMAIN publishers)
        => /\ ~last'.raised
           /\ ~last'.sent
           /\ UNCHANGED <<publishers, node_pubs, timers, id_counter>> ]_vars

\* C12 witness: remove_publisher is called with an id that was never handed
\* out, while an entry with a running timer is registered
C12_Witness ==
    /\ last.op = "remove_publisher"
    /\ last.id >= id_counter
    /\ ~last.raised
    /\ \E id \in DOMAIN publishers : timers[id] /\ id \in node_pubs


(***************************************************************************)
(* Claims on the ids (PersistSpec).                                        *)
(***************************************************************************)
\* C13: an entry is registered under the id stored in it, every registered
\* id is below the id counter, the counter never goes down, and over add
\* (accepted or rejected), remove, clean-up and restore every new entry gets
\* an id that is at least the counter before the step, so greater than every
\* id handed out before: no id is given to two entries.
C13_IdsNeverReused ==
    /\ [](\A id \in DOMAIN publishers :
            publishers[id].publisher_id = id /\ id < id_counter)
    /\ [][ /\ id_counter' >= id_counter
           /\ \A id \in DOMAIN publishers' :
                 \/ id >= id_counter
                 \/ id \in DOMAIN publishers /\ publishers'[id].publisher = publishers[id].publisher
         ]_vars

\* C13 witness: a saved entry has been restored under a new id after an add
\* was rejected for its type (the id it used up has no timer)
C13_Witness ==
    /\ last.op = "restore_settings"
    /\ ~last.raised
    /\ publishers # <<>>
    /\ \A id \in DOMAIN publishers : id >= MaxId
    /\ \E id \in 0..(id_counter - 1) : id \notin DOMAIN timers


(***************************************************************************)
(* PairSpec: two Point entries, /a and /b, side by side.  Each is given    *)
(* expressions at x and is published in any interleaving with the other.   *)
(***************************************************************************)
PairExpressions == {"", "i*2", "2//(2-i)"}

PairAdd ==
    \E topic_name \in {"/a", "/b"} :
        /\ \A id \in DOMAIN publishers : publishers[id].topic_name # topic_name
        /\ add_publisher(topic_name, "Point", "0.0", FALSE)

PairChangeExpression ==
    \E id \in Ids, new_value \in PairExpressions, now \in Clock :
        id \in DOMAIN publishers /\ change_publisher_expression(id, <<"x">>, new_value, now)

PairPublishOnce ==
    \E id \in Ids, now \in Clock : id \in DOMAIN publishers /\ publish_once(id, now)

PairNext ==
    \/ PairAdd
    \/ PairChangeExpression
    \/ PairPublishOnce

PairSpec == Init /\ [][PairNext]_vars

(***************************************************************************)
(* Claims on the counter seen by the expressions (PairSpec).               *)
(***************************************************************************)
\* C14: every evaluation done for an entry sees the entry's own counter as
\* i.  A publish_once of an entry with i*2 at x emits twice the entry's
\* counter, and a change-expression request at x is accepted exactly when
\* the text evaluates to an int with i bound to the entry's counter,
\* whatever the other entry has published.
C14_OwnCounterOnly ==
    [][ \A id \in DOMAIN publishers :
          /\ ( /\ last'.op = "publish_once" /\ last'.id = id /\ last'.sent
               /\ publishers'[id].expressions = (PathX(id) :> "i*2") )
             => last'.msg.v.x = PyInt(2 * publishers'[id].counter)
          /\ ( /\ last'.op = "change_expression" /\ last'.id = id
               /\ last'.ret # <<>> )
             => \A now \in Clock :
                   (Len(last'.ret) = 1)
                     = evaluate_expression(last'.ret[1], "int",
                                           publishers[id].counter, now).success
      ]_vars


(***************************************************************************)
(* More claims on the tree filler (FillSpec).                              *)
(***************************************************************************)
\* C15: in the message that publish_once emits, every path that exists in
\* the message, has a non-empty expression and no ancestor with one holds the
\* result of its override - the evaluated and coerced value, or the default
\* of the node's type when the evaluation fails - whatever the node is.
C15_OverrideWritten ==
    \A id \in DOMAIN publishers : Published(id) =>
        LET publisher_info == publishers[id]
            expressions == publisher_info.expressions
            root == <<publisher_info.topic_name>>
        IN \A p \in DOMAIN expressions :
            ( /\ HasExpression(expressions, p)
              /\ \A a \in DOMAIN expressions :
                    ~(HasExpression(expressions, a) /\ StrictPrefix(a, p))
              /\ Navigable(last.msg, Below(root, p)) ) =>
            \E now \in Clock :
                GetAt(last.msg, Below(root, p))
                  = FillOverride(GetAt(last.msg, Below(root, p)), p, expressions,
                                 publisher_info.counter, now).ret


\* C16: no path of an entry's expression map is bound to the empty string,
\* whatever change-expression requests the entry has received.
C16_NoEmptyExpression ==
    \A id \in DOMAIN publishers :
        \A p \in DOMAIN publishers[id].expressions :
            publishers[id].expressions[p] # ""


(***************************************************************************)
(* More claims on the change requests of one entry (EntrySpec).            *)
(***************************************************************************)
\* C17: a change-expression request with a non-empty text that is not
\* accepted - its validation fails, or the fill that follows raises - leaves
\* the entry's expression map exactly as it was and returns the text with
\* the error marker to the caller.
C17_RejectedLeavesMap ==
    [][ \A id \in DOMAIN publishers :
          ( /\ last'.op = "change_expression"
            /\ last'.id = id
            /\ (last'.raised \/ Len(last'.ret) = 2) )
          => /\ publishers'[id].expressions = publishers[id].expressions
             /\ ~last'.raised
             /\ Len(last'.ret) = 2
             /\ last'.ret[2] = "# error" ]_vars


\* the field paths of the messages of EntrySpec
EntryFieldPaths == {<<"x">>, <<"y">>, <<"y", "sec">>, <<"y", "nanosec">>}

\* neither path is at or below the other
Apart(p, q) == p # q /\ ~StrictPrefix(p, q) /\ ~StrictPrefix(q, p)

\* slot_path names a field of the entry's message as it is now
NamesField(id, slot_path) ==
    /\ id \in DOMAIN publishers
    /\ Navigable(publishers[id].message_instance, slot_path)

\* the class that declares the field at slot_path
DeclaringClass(id, slot_path) ==
    GetAt(publishers[id].message_instance, SubSeq(slot_path, 1, Len(slot_path) - 1)).t

FillerRan(id) ==
    /\ id \in DOMAIN publishers
    /\ last.id = id
    /\ ~last.raised
    /\ \/ last.op = "publish_once"
       \/ last.op = "change_expression" /\ Len(last.ret) = 1

\* C19: running the filler a second time on the message it has just filled,
\* with the same expression map, counter and clock, does not raise and
\* leaves the message identical.
C19_FillIdempotent ==
    \A id \in DOMAIN publishers : FillerRan(id) =>
        \A now \in Clock :
            LET publisher_info == publishers[id]
                again == fill_message_slots(publisher_info.message_instance,
                                            <<publisher_info.topic_name>>,
                                            publisher_info.expressions,
                                            publisher_info.counter, eval_i, now)
            IN /\ ~again.raised
               /\ again.msg = publisher_info.message_instance

\* C19 witness: the second emission of an entry with overrides at a composite
\* field, at an array and at an element of a string array that has none
C19_Witness ==
    \E id \in DOMAIN publishers :
        /\ Published(id)
        /\ publishers[id].counter = 2
        /\ HasExpression(publishers[id].expressions, <<"/a", "stamp">>)
        /\ HasExpression(publishers[id].expressions, <<"/a", "hist">>)
        /\ HasExpression(publishers[id].expressions, <<"/a", "tags", "[0]">>)
        /\ ~HasExpression(publishers[id].expressions, <<"/a", "tags">>)
        /\ last.msg.v.stamp = TimeMsg(5)
        /\ last.msg.v.hist = PyList(<<>>)
        /\ last.msg.v.tags = PyList(<<PyStr("4"), PyStr("b")>>)


(***************************************************************************)
(* Claims on the bus handles (PersistSpec).                                *)
(***************************************************************************)
\* the handles owned by the registered entries
Owned == {publishers[id].publisher : id \in DOMAIN publishers}

\* C20: the bus handles that were created and not destroyed are exactly the
\* handles owned by the registered entries, no two entries own the same
\* handle, and a handle that a step creates was never created before; so
\* over add, remove, clean-up, restore and shutdown no handle is leaked, none
\* is destroyed twice and no entry holds a destroyed handle.
C20_HandlesMatchRegistry ==
    /\ [](node_pubs = Owned)
    /\ [](\A a \in DOMAIN publishers, b \in DOMAIN publishers :
            publishers[a].publisher = publishers[b].publisher => a = b)
    /\ [][ \A handle \in node_pubs' \ node_pubs : handle >= id_counter ]_vars

\* C20 witness: the plugin is shut down after saved entries were restored
\* under new ids, and no handle is left
C20_Witness ==
    /\ last.op = "shutdown_plugin"
    /\ \E id \in DOMAIN timers : id >= MaxId
    /\ node_pubs = {}
    /\ publishers = <<>>

====
